---- MODULE Spec2Model ----
(***************************************************************************)
(* A model of the 3D cellular automaton of src/src/main.rs: the grid       *)
(* (cell_locations), the rule tables, the pause flag, the coordinate       *)
(* mapping, the neighbour counter, the fork-join step, the seeder, and the  *)
(* systems setup, ui, pause and feed_cells with the access each declares.  *)
(*                                                                         *)
(* Scale.  The program fixes GAME_SIZE = 100 (10^6 cells).  The model      *)
(* keeps every formula of the source in terms of GAME_SIZE and scales the  *)
(* side to 2 * HalfSide, so that a whole grid can be enumerated.  Only     *)
(* even sides are modelled, as in the program.                             *)
(*                                                                         *)
(* Numbers.  The source computes coordinates and indices in f32.  Every    *)
(* value it forms from a lattice position or an index of the grid is an    *)
(* integer below 2^24, which f32 represents exactly, and the quotients     *)
(* i / GAME_SIZE it floors are never within an f32 rounding step of the    *)
(* next integer; the model therefore uses exact arithmetic.  A position    *)
(* handed to translate_location_to_index may have a fractional part: it    *)
(* is modelled in fixed point, in units of 1/Sub of a cell.                *)
(***************************************************************************)
EXTENDS Integers, Naturals, Sequences, FiniteSets, TLC

\* ------------------------------------------------------------ bounds
\* Half the side of the modelled grid (the program's is 50).
HalfSide == 3
\* Fixed-point denominator of a fractional position.
Sub == 2
\* How far outside the grid, in cells, a probed position may lie.
Margin == 1

\* ------------------------------------------------------------ constants
\* const GAME_SIZE: f32 = 100.  (scaled, see above)
GAME_SIZE == 2 * HalfSide
\* The side the program is built with: const GAME_SIZE: f32 = 100.
ProgramSide == 100
\* const CELL_LOCATIONS_SIZE: usize = GAME_SIZE^3
CELL_LOCATIONS_SIZE == GAME_SIZE * GAME_SIZE * GAME_SIZE
\* const CELL_SIZE: f32 = 1.
CELL_SIZE == 1
\* The rule tables are [bool; 27].
TableSize == 27

\* The indices of the grid, a Rust array indexed from 0.
Indices == 0 .. (CELL_LOCATIONS_SIZE - 1)
\* The lattice coordinates of the grid on one axis.
Coords == (-(GAME_SIZE \div 2)) .. ((GAME_SIZE \div 2) - 1)

\* ------------------------------------------------------------ numbers
\* f32::abs on an integer-valued float.
abs(v) == IF v < 0 THEN -v ELSE v

\* `f as usize`: a float-to-integer cast saturates, a negative value gives 0.
as_usize(v) == IF v < 0 THEN 0 ELSE v

\* Rust's integer division, which truncates toward zero.
quot(a, b) == IF a >= 0 THEN a \div b ELSE -((-a) \div b)

\* i32::clamp(lo, hi)
clamp(v, lo, hi) == IF v < lo THEN lo ELSE IF v > hi THEN hi ELSE v

\* A whole number of cells as a fixed-point position.
Fix(n) == n * Sub

\* (v / CELL_SIZE).floor() * CELL_SIZE of a fixed-point v: a whole number.
floor_to_cell(v) == (v \div (Sub * CELL_SIZE)) * CELL_SIZE

\* ------------------------------------------------------------ coordinate mapper
\* fn translate_location_to_index(x, y, z: f32) -> usize; x, y, z in fixed point.
translate_location_to_index(x, y, z) ==
    LET x1 == floor_to_cell(x) + (GAME_SIZE \div 2)
        y1 == floor_to_cell(y) + (GAME_SIZE \div 2)
        z1 == floor_to_cell(z) + (GAME_SIZE \div 2)
    IN  as_usize(x1 + GAME_SIZE * y1 + GAME_SIZE * GAME_SIZE * z1)

\* translate_index_to_location with the y coordinate not reduced modulo GAME_SIZE.
translate_index_to_location_no_mod(index) ==
    LET x == (index % GAME_SIZE) - (GAME_SIZE \div 2)
        y == (index \div GAME_SIZE) - (GAME_SIZE \div 2)
        z == (index \div (GAME_SIZE * GAME_SIZE)) - (GAME_SIZE \div 2)
    IN  <<x, y, z>>

\* fn translate_index_to_location(index: usize) -> (f32, f32, f32)
translate_index_to_location(index) ==
    LET i == index
        x == (i % GAME_SIZE) - (GAME_SIZE \div 2)
        y == ((i \div GAME_SIZE) % GAME_SIZE) - (GAME_SIZE \div 2)
        z == (i \div (GAME_SIZE * GAME_SIZE)) - (GAME_SIZE \div 2)
    IN  <<x, y, z>>

\* ------------------------------------------------------------ neighbourhood counter
\* The offsets with the cell itself among them.
locations_with_self ==
    << <<-1, -1, -1>>, <<0, -1, -1>>, <<1, -1, -1>>,
       <<-1,  0, -1>>, <<0,  0, -1>>, <<1,  0, -1>>,
       <<-1,  1, -1>>, <<0,  1, -1>>, <<1,  1, -1>>,
       <<-1, -1,  0>>, <<0, -1,  0>>, <<1, -1,  0>>,
       <<-1,  0,  0>>, <<0,  0,  0>>, <<1,  0,  0>>,
       <<-1,  1,  0>>, <<0,  1,  0>>, <<1,  1,  0>>,
       <<-1, -1,  1>>, <<0, -1,  1>>, <<1, -1,  1>>,
       <<-1,  0,  1>>, <<0,  0,  1>>, <<1,  0,  1>>,
       <<-1,  1,  1>>, <<0,  1,  1>>, <<1,  1,  1>> >>

\* let locations = [...]: all potential neighbours a cell can have, in source order.
locations ==
    << <<-1, -1, -1>>, <<0, -1, -1>>, <<1, -1, -1>>,
       <<-1,  0, -1>>, <<0,  0, -1>>, <<1,  0, -1>>,
       <<-1,  1, -1>>, <<0,  1, -1>>, <<1,  1, -1>>,
       <<-1, -1,  0>>, <<0, -1,  0>>, <<1, -1,  0>>,
       <<-1,  0,  0>>,                <<1,  0,  0>>,
       <<-1,  1,  0>>, <<0,  1,  0>>, <<1,  1,  0>>,
       <<-1, -1,  1>>, <<0, -1,  1>>, <<1, -1,  1>>,
       <<-1,  0,  1>>, <<0,  0,  1>>, <<1,  0,  1>>,
       <<-1,  1,  1>>, <<0,  1,  1>>, <<1,  1,  1>> >>

\* The closure without its early return: every neighbour is read.
skipped_never(loc, x) == FALSE

\* The early return with the bound GAME_SIZE / 2 in place of GAME_SIZE / 2 - 1.
skipped_late(loc, x) ==
    \/ abs(loc[1]) + x[1] >= (GAME_SIZE \div 2)
    \/ abs(loc[2]) + x[2] >= (GAME_SIZE \div 2)
    \/ abs(loc[3]) + x[3] >= (GAME_SIZE \div 2)

\* The early return of the fold's closure: the neighbour at offset x is skipped.
skipped(loc, x) ==
    \/ abs(loc[1]) + x[1] >= (GAME_SIZE \div 2) - 1
    \/ abs(loc[2]) + x[2] >= (GAME_SIZE \div 2) - 1
    \/ abs(loc[3]) + x[3] >= (GAME_SIZE \div 2) - 1

\* The index the closure computes for the neighbour at offset x.
neighbor_index(loc, x) ==
    translate_location_to_index(Fix(loc[1] + x[1]), Fix(loc[2] + x[2]), Fix(loc[3] + x[3]))

\* One application of the fold's closure.  cell_locations[index] panics when the
\* index is out of bounds: the accumulator records it and keeps it.
fold_step(acc, loc, x, cells) ==
    IF acc.panic \/ skipped(loc, x)
    THEN acc
    ELSE LET index == neighbor_index(loc, x)
         IN  IF index \notin DOMAIN cells
             THEN [acc EXCEPT !.panic = TRUE]
             ELSE IF cells[index] THEN [acc EXCEPT !.n = acc.n + 1] ELSE acc

\* locations.iter().fold(0, ...) over the offsets k .. 26.
RECURSIVE fold_from(_, _, _, _)
fold_from(k, acc, loc, cells) ==
    IF k > Len(locations)
    THEN acc
    ELSE fold_from(k + 1, fold_step(acc, loc, locations[k], cells), loc, cells)

\* fn get_neighbors(index: i32, cell_locations) -> i32, as [panic, n].
get_neighbors(index, cells) ==
    fold_from(1, [panic |-> FALSE, n |-> 0], translate_index_to_location(index), cells)

\* ------------------------------------------------------------ rule engine
\* GameRule::to_dense_array(vc)
to_dense_array(vc) == [i \in 0 .. (TableSize - 1) |-> i \in vc]

\* GameRule::default(); the two colours only feed the renderer and are left out.
GameRule_default ==
    [ neighbors_to_surive |-> to_dense_array({5, 6, 7, 8}),
      neighbors_to_spawn  |-> to_dense_array({6, 7, 9}),
      spawn_noise_count   |-> 50000,
      spawn_noise_radius  |-> 75 ]

\* ------------------------------------------------------------ step scheduler
\* The divisor of the chunk size: (GAME_SIZE^3 / 32.) as usize.
ChunkDivisor == 32

\* let chunck_size = ((GAME_SIZE * GAME_SIZE * GAME_SIZE) / 32.) as usize;
chunck_size == as_usize(CELL_LOCATIONS_SIZE \div ChunkDivisor)

\* par_chunk_map splits the slice as slice.chunks(size) does: contiguous chunks of
\* `size` elements, the last one shorter when size does not divide the length.
chunk_count(size) == (CELL_LOCATIONS_SIZE + size - 1) \div size

\* The last element of a chunk taken one element too far.
chunk_last_overlapping(c, size) ==
    IF (c + 1) * size >= CELL_LOCATIONS_SIZE THEN CELL_LOCATIONS_SIZE - 1 ELSE (c + 1) * size

\* The first and the last element of chunk c of counts = (0..max_size).
chunk_first(c, size) == c * size
chunk_last(c, size) ==
    IF (c + 1) * size > CELL_LOCATIONS_SIZE THEN CELL_LOCATIONS_SIZE - 1 ELSE (c + 1) * size - 1

\* The result slot of a chunk whose task has not run yet.
Pending == [done |-> FALSE, panic |-> FALSE, cells_to_add |-> <<>>, cells_to_remove |-> <<>>]

\* The pass with the negation of the survive test lost.
chunk_body_keeps(i, cells, rule) ==
    LET r == get_neighbors(i, cells)
        nc == as_usize(r.n)
        bad == r.panic \/ nc \notin DOMAIN rule.neighbors_to_spawn
                       \/ nc \notin DOMAIN rule.neighbors_to_surive
    IN  [i |-> i, panic |-> bad,
         add |-> IF bad THEN FALSE ELSE rule.neighbors_to_spawn[nc],
         remove |-> IF bad THEN FALSE ELSE rule.neighbors_to_surive[nc]]

\* One pass of `for i in chunck`: the count, the two table lookups, and what the
\* pass pushes.  The pass panics when get_neighbors does, or when a lookup uses a
\* count outside the table.
chunk_body(i, cells, rule) ==
    LET r == get_neighbors(i, cells)
        nc == as_usize(r.n)
        bad == r.panic \/ nc \notin DOMAIN rule.neighbors_to_spawn
                       \/ nc \notin DOMAIN rule.neighbors_to_surive
    IN  [i |-> i, panic |-> bad,
         add |-> IF bad THEN FALSE ELSE rule.neighbors_to_spawn[nc],
         remove |-> IF bad THEN FALSE ELSE ~rule.neighbors_to_surive[nc]]

\* The closure handed to par_chunk_map, applied to chunk c: the passes over the
\* elements of the chunk in their order, and the two vectors they leave.
chunk_map(c, size, cells, rule) ==
    LET first == chunk_first(c, size)
        passes == [k \in 1 .. (chunk_last(c, size) - first + 1) |->
                      chunk_body(first + k - 1, cells, rule)]
        pushed_add(e) == e.add
        pushed_remove(e) == e.remove
        adds == SelectSeq(passes, pushed_add)
        removes == SelectSeq(passes, pushed_remove)
    IN  IF \E k \in DOMAIN passes : passes[k].panic
        THEN [Pending EXCEPT !.done = TRUE, !.panic = TRUE]
        ELSE [done |-> TRUE, panic |-> FALSE,
              cells_to_add |-> [k \in DOMAIN adds |-> adds[k].i],
              cells_to_remove |-> [k \in DOMAIN removes |-> removes[k].i]]

\* The write loop with `true` written in both loops.
write_all_true(cells, list, v) ==
    LET written == {list[k] : k \in DOMAIN list}
    IN  [i \in DOMAIN cells |-> IF i \in written THEN TRUE ELSE cells[i]]

\* for i in list { cell_locations[i] = v; }: every listed cell holds v afterwards.
\* The listed indices are elements of a chunk, so none is out of bounds.
write_all(cells, list, v) ==
    LET written == {list[k] : k \in DOMAIN list}
    IN  [i \in DOMAIN cells |-> IF i \in written THEN v ELSE cells[i]]

\* The two write loops in the other order: removals first, additions last.
apply_change_add_last(cells, change) ==
    write_all(write_all(cells, change.cells_to_remove, FALSE), change.cells_to_add, TRUE)

\* The body of `for (cells_to_add, cells_to_remove) in cell_changes`.
apply_change(cells, change) ==
    write_all(write_all(cells, change.cells_to_add, TRUE), change.cells_to_remove, FALSE)

\* A join that does not wait for the tasks.
no_join(changes) == TRUE

\* The join of par_chunk_map: it returns once every task has returned.
all_joined(changes) == \A c \in DOMAIN changes : changes[c].done

\* An order of n chunks, <<start, stride>>: the j-th chunk taken is start + stride * j
\* modulo n.  <<0, 1>> is the order of the vector.
order_at(o, j, n) == (o[1] + o[2] * j) % n
vec_order == <<0, 1>>
\* The orders explored for the tasks of the pool: forwards and backwards.
Orders(n) == {vec_order, <<n - 1, n - 1>>}

\* ------------------------------------------------------------ state
VARIABLES
    cell_locations,  \* the grid resource, [bool; CELL_LOCATIONS_SIZE]
    game_rule,       \* the GameRule resource
    paused,          \* the Paused resource
    pc,              \* cell_location_updater: "idle", "fork", "apply"; "startup" before setup
                     \* has run; "panic" once the program died
    chunk_len,       \* the chunk size of the running step
    sched,           \* the orders in which the pool runs the tasks and the results are applied
    cell_changes,    \* the per-chunk results of par_chunk_map
    step_no,         \* how many chunks the running phase has handled
    pre,             \* history: the resources when the step was last called
    last,            \* history: the system that ran last; "none" before the first one
    probe,           \* the last direct call of one of the functions, with its result
    instances,       \* InstanceMaterialData: the positions feed_cells handed to the renderer
    events,          \* how many calls of ui, pause and feed_cells were explored so far
    flips            \* history: how often the pause flag was toggled since the start

vars == <<cell_locations, game_rule, paused, pc, chunk_len, sched, cell_changes,
          step_no, pre, last, probe, instances, events, flips>>

resources == <<cell_locations, game_rule, paused>>
\* The resources as a record, for the history variable.
snapshot == [cell_locations |-> cell_locations, game_rule |-> game_rule, paused |-> paused]
locals == <<chunk_len, sched, cell_changes, step_no>>
\* What the step and the direct calls of the functions leave alone.
app == <<instances, events, flips>>

\* ------------------------------------------------------------ cell_location_updater
\* The step without its pause test.
returns_never(p) == FALSE

\* The test of `if *paused { return; }`.
returns_early(p) == p

\* if *paused { return; }
UpdaterPaused ==
    /\ pc = "idle"
    /\ returns_early(paused)
    /\ pre' = snapshot
    /\ last' = "step"
    /\ UNCHANGED <<resources, pc, locals, probe, app>>

\* The unpaused call up to par_chunk_map's spawning of one task per chunk of `size`
\* elements; eo and ao are the orders the tasks run in and the results are applied in.
UpdaterFork(size, eo, ao) ==
    /\ pc = "idle"
    /\ ~returns_early(paused)
    /\ size > 0
    /\ pre' = snapshot
    /\ last' = "step"
    /\ pc' = "fork"
    /\ chunk_len' = size
    /\ sched' = [eval |-> eo, apply |-> ao]
    /\ cell_changes' = [c \in 0 .. (chunk_count(size) - 1) |-> Pending]
    /\ step_no' = 0
    /\ UNCHANGED <<resources, probe, app>>

\* One task of the pool: the closure on the next chunk, reading the shared grid.
EvalChunk ==
    /\ pc = "fork"
    /\ step_no < chunk_count(chunk_len)
    /\ LET c == order_at(sched.eval, step_no, chunk_count(chunk_len))
           r == chunk_map(c, chunk_len, cell_locations, game_rule)
       IN  /\ cell_changes' = [cell_changes EXCEPT ![c] = r]
           /\ pc' = IF r.panic THEN "panic" ELSE pc
    /\ step_no' = step_no + 1
    /\ UNCHANGED <<resources, chunk_len, sched, pre, last, probe, app>>

\* par_chunk_map returns: every task has finished.
Join ==
    /\ pc = "fork"
    /\ all_joined(cell_changes)
    /\ pc' = "apply"
    /\ step_no' = 0
    /\ UNCHANGED <<resources, chunk_len, sched, cell_changes, pre, last, probe, app>>

\* One round of `for (cells_to_add, cells_to_remove) in cell_changes`.
ApplyChunk ==
    /\ pc = "apply"
    /\ step_no < chunk_count(chunk_len)
    /\ LET c == order_at(sched.apply, step_no, chunk_count(chunk_len))
       IN  cell_locations' = apply_change(cell_locations, cell_changes[c])
    /\ step_no' = step_no + 1
    /\ UNCHANGED <<game_rule, paused, pc, chunk_len, sched, cell_changes, pre, last, probe, app>>

\* The loop is over: the system returns.  Its locals are dead from here on; the
\* model leaves their last values in place.
UpdaterReturn ==
    /\ pc = "apply"
    /\ step_no = chunk_count(chunk_len)
    /\ pc' = "idle"
    /\ UNCHANGED <<resources, locals, pre, last, probe, app>>

\* The step as the program runs it: chunks of chunck_size, tasks in any explored
\* order, results applied in the order of the vector.
cell_location_updater ==
    \/ last = "none" /\ UpdaterPaused
    \/ last = "none" /\ \E eo \in Orders(chunk_count(chunck_size)) :
                            UpdaterFork(chunck_size, eo, vec_order)
    \/ EvalChunk
    \/ Join
    \/ ApplyChunk
    \/ UpdaterReturn

\* ------------------------------------------------------------ grids and rules explored
\* let cell_locations: CellLocations = [false; CELL_LOCATIONS_SIZE];
EmptyGrid == [i \in Indices |-> FALSE]
FullGrid == [i \in Indices |-> TRUE]

\* The grid whose alive cells are the lattice positions lo <= p <= hi (per axis).
BoxGrid(lo, hi) ==
    [i \in Indices |->
        LET p == translate_index_to_location(i)
        IN  \A a \in 1 .. 3 : lo[a] <= p[a] /\ p[a] <= hi[a]]

\* The 3 x 3 x 3 block around the origin without the origin.
HollowGrid == [BoxGrid(<<-1, -1, -1>>, <<1, 1, 1>>) EXCEPT
                  ![translate_location_to_index(0, 0, 0)] = FALSE]

\* The grid with one alive cell.
SingleGrid(i) == [EmptyGrid EXCEPT ![i] = TRUE]

\* Grids that seeding (any subset of the grid when the radius is GAME_SIZE) and
\* reset produce: the blocks from (-1,-1,-1) to (1,hy,hz), and three more.
BoxHi == {-1, 0, 1}
SeedGrids ==
    {BoxGrid(<<-1, -1, -1>>, <<1, h[1], h[2]>>) : h \in BoxHi \X BoxHi}
        \cup {EmptyGrid, FullGrid, HollowGrid}

\* The rule after the editor's two checkboxes of count c were set to sv and sp.
edit_rule(rule, c, sv, sp) ==
    [rule EXCEPT !.neighbors_to_surive[c] = sv, !.neighbors_to_spawn[c] = sp]

\* The rules explored: the default rule, and it with the boxes of one count edited.
EditedCounts == {0, 9}
Rules == {edit_rule(GameRule_default, c, sv, sp) :
             c \in EditedCounts, sv \in BOOLEAN, sp \in BOOLEAN}

NoProbe == [fn |-> "none"]

InitLocals ==
    /\ pc = "idle"
    /\ chunk_len = 0
    /\ sched = [eval |-> vec_order, apply |-> vec_order]
    /\ cell_changes = <<>>
    /\ step_no = 0
    /\ last = "none"
    /\ pre = snapshot
    /\ probe = NoProbe
    /\ instances = <<>>
    /\ events = 0
    /\ flips = 0

\* ------------------------------------------------------------ SpecStep: the step
InitStep ==
    /\ cell_locations \in SeedGrids
    /\ game_rule \in Rules
    /\ paused \in BOOLEAN
    /\ InitLocals

\* Each behaviour of the step specifications calls the step once.
NextStep == cell_location_updater

SpecStep == InitStep /\ [][NextStep]_vars

\* ------------------------------------------------------------ SpecOrder: re-ordering, re-chunking
\* The step generalised over what the pool and the chunking may vary: the chunk
\* size, the order of the tasks and the order in which the results are applied.
ChunkSizes == {chunck_size, chunck_size + 1, CELL_LOCATIONS_SIZE \div 2, CELL_LOCATIONS_SIZE}

UpdaterForkAny ==
    /\ last = "none"
    /\ \E size \in ChunkSizes :
          \E eo \in Orders(chunk_count(size)), ao \in Orders(chunk_count(size)) :
              UpdaterFork(size, eo, ao)

\* The grids of SeedGrids the re-ordered step is explored on.
OrderGrids ==
    {BoxGrid(<<-1, -1, -1>>, <<1, 1, -1>>), BoxGrid(<<-1, -1, -1>>, <<1, 1, 1>>),
     EmptyGrid, FullGrid, HollowGrid}

InitOrder ==
    /\ cell_locations \in OrderGrids
    /\ game_rule \in Rules
    /\ paused = FALSE
    /\ InitLocals

NextOrder ==
    \/ UpdaterForkAny
    \/ EvalChunk
    \/ Join
    \/ ApplyChunk
    \/ UpdaterReturn

SpecOrder == InitOrder /\ [][NextOrder]_vars

\* ------------------------------------------------------------ SpecSingle: one alive cell
InitSingle ==
    /\ cell_locations \in {SingleGrid(i) : i \in Indices}
    /\ game_rule = GameRule_default
    /\ paused = FALSE
    /\ InitLocals

NextSingle ==
    \/ last = "none" /\ UpdaterFork(chunck_size, vec_order, vec_order)
    \/ EvalChunk
    \/ Join
    \/ ApplyChunk
    \/ UpdaterReturn

SpecSingle == InitSingle /\ [][NextSingle]_vars

\* ------------------------------------------------------------ seeder
\* let x_start = (center.0 - (distance / 2) as i32).clamp(-(GAME_SIZE / 2.) as i32, (GAME_SIZE / 2.) as i32);
spawn_start(c, distance) ==
    clamp(c - quot(distance, 2), -(GAME_SIZE \div 2), GAME_SIZE \div 2)

\* The sampled range with its end included.
spawn_range_inclusive(c, distance) ==
    spawn_start(c, distance) .. (spawn_start(c, distance) + distance)

\* Uniform::from(x_start..(x_start + distance)): the values a sample can take.
spawn_range(c, distance) ==
    spawn_start(c, distance) .. (spawn_start(c, distance) + distance - 1)

\* fn create_random_spawn_points(points, center, distance): the vectors it can
\* return.  Uniform::from panics on an empty range; (0..points) is empty for
\* points <= 0.
create_random_spawn_points(points, center, distance) ==
    IF distance < 1
    THEN {[panic |-> TRUE, points |-> <<>>]}
    ELSE {[panic |-> FALSE, points |-> v] :
            v \in [1 .. points ->
                     spawn_range(center[1], distance) \X spawn_range(center[2], distance)
                         \X spawn_range(center[3], distance)]}

\* ------------------------------------------------------------ calls of the functions
\* Each behaviour of a specification below makes one call, from a state of the program.
\* The program's state right after the resources are inserted in main.
InitMain ==
    /\ cell_locations = EmptyGrid
    /\ game_rule = GameRule_default
    /\ paused = TRUE
    /\ InitLocals

CallIndexToLocation(i) ==
    /\ probe = NoProbe
    /\ probe' = [fn |-> "translate_index_to_location", arg |-> i,
                 ret |-> translate_index_to_location(i)]
    /\ UNCHANGED <<resources, pc, locals, pre, last, app>>

CallLocationToIndex(x, y, z) ==
    /\ probe = NoProbe
    /\ probe' = [fn |-> "translate_location_to_index", arg |-> <<x, y, z>>,
                 ret |-> translate_location_to_index(x, y, z)]
    /\ UNCHANGED <<resources, pc, locals, pre, last, app>>

CallGetNeighbors(i) ==
    /\ probe = NoProbe
    /\ probe' = [fn |-> "get_neighbors", arg |-> i, ret |-> get_neighbors(i, cell_locations)]
    /\ UNCHANGED <<resources, pc, locals, pre, last, app>>

CallSpawnPoints(points, center, distance) ==
    /\ probe = NoProbe
    /\ \E r \in create_random_spawn_points(points, center, distance) :
          probe' = [fn |-> "create_random_spawn_points",
                    arg |-> [points |-> points, center |-> center, distance |-> distance],
                    ret |-> r]
    /\ UNCHANGED <<resources, pc, locals, pre, last, app>>

\* ------------------------------------------------------------ SpecMap: the coordinate mapper
\* The fixed-point positions probed on one axis: the grid and Margin cells around it.
ProbeCoords == Fix(-(GAME_SIZE \div 2) - Margin) .. (Fix((GAME_SIZE \div 2) + Margin) - 1)

NextMap ==
    \/ \E i \in Indices : CallIndexToLocation(i)
    \/ \E x \in ProbeCoords, y \in ProbeCoords, z \in ProbeCoords : CallLocationToIndex(x, y, z)

SpecMap == InitMain /\ [][NextMap]_vars

\* ------------------------------------------------------------ SpecNeighbors: the neighbour counter
InitNeighbors ==
    /\ cell_locations \in SeedGrids
    /\ game_rule \in Rules
    /\ paused = TRUE
    /\ InitLocals

NextNeighbors == \E i \in Indices : CallGetNeighbors(i)

SpecNeighbors == InitNeighbors /\ [][NextNeighbors]_vars

\* ------------------------------------------------------------ SpecSeed: the seeder
\* The most points one call draws, and the largest radius.
MaxPoints == 1
MaxRadius == 3
\* The centres probed on one axis: far below the grid, the origin, far above it.
CenterCoords == {-GAME_SIZE, 0, GAME_SIZE}

NextSeed ==
    \E points \in 0 .. MaxPoints, distance \in 0 .. MaxRadius,
       center \in CenterCoords \X CenterCoords \X CenterCoords :
        CallSpawnPoints(points, center, distance)

SpecSeed == InitMain /\ [][NextSeed]_vars

\* ------------------------------------------------------------ the systems and their scheduling
\* The resources a system names in its signature: Res<T> reads T, ResMut<T>
\* writes it.  Paused is bool, so pause's ResMut<bool> is the Paused resource.
access_cell_location_updater ==
    [reads |-> {"GameRule", "Paused"}, writes |-> {"CellLocations"}]
access_ui ==
    [reads |-> {"InstanceMaterialData"},
     writes |-> {"EguiContext", "GameRule", "CellLocations", "Paused"}]
access_feed_cells ==
    [reads |-> {"CellLocations", "GameRule"}, writes |-> {"InstanceMaterialData"}]
access_pause == [reads |-> {"KeyboardInput"}, writes |-> {"Paused"}]

\* An executor that runs any two systems at the same time.
compatible_always(a, b) == TRUE

\* Two systems may run at the same time when neither writes what the other uses.
compatible(a, b) ==
    /\ a.writes \cap (b.reads \cup b.writes) = {}
    /\ b.writes \cap (a.reads \cup a.writes) = {}

\* cell_location_updater is between its fork and its return.
step_running == pc \in {"fork", "apply"}

\* The executor starts a system with access a: nothing is running, or what is
\* running (the step; the other systems are modelled as single steps) is
\* compatible with it.  Nothing starts before setup has run or after a panic.
can_run(a) ==
    \/ pc = "idle"
    \/ step_running /\ compatible(a, access_cell_location_updater)

\* for t in points { let index = translate_location_to_index(t.0, t.1, t.2); ... }:
\* the indices the loop computes.
seed_indices(points) ==
    [k \in DOMAIN points |->
        translate_location_to_index(Fix(points[k][1]), Fix(points[k][2]), Fix(points[k][3]))]

\* The seeding loop writing into a cleared grid.
seed_cells_cleared(cells, points) ==
    LET idx == seed_indices(points)
    IN  IF \E k \in DOMAIN idx : idx[k] \notin DOMAIN cells
        THEN [panic |-> TRUE, cells |-> cells]
        ELSE [panic |-> FALSE, cells |-> write_all([i \in DOMAIN cells |-> FALSE], idx, TRUE)]

\* The seeding loop of setup and of the spawn noise button:
\* cell_locations[index] = true for every point; an index out of bounds panics.
seed_cells(cells, points) ==
    LET idx == seed_indices(points)
    IN  IF \E k \in DOMAIN idx : idx[k] \notin DOMAIN cells
        THEN [panic |-> TRUE, cells |-> cells]
        ELSE [panic |-> FALSE, cells |-> write_all(cells, idx, TRUE)]

\* create_random_spawn_points followed by the seeding loop: the grids it can leave.
seeded(cells, points, center, distance) ==
    {LET s == IF r.panic THEN [panic |-> TRUE, cells |-> cells]
                         ELSE seed_cells(cells, r.points)
     IN  [panic |-> s.panic, cells |-> s.cells, points |-> r.points] :
        r \in create_random_spawn_points(points, center, distance)}

\* The program's lengths and counts are given for a grid of side 100; the model
\* scales a length with the side (rounding up) and a count with the number of
\* cells (at least one).
scaled_radius(r) == ((r * GAME_SIZE) + ProgramSide - 1) \div ProgramSide
scaled_count(n) ==
    LET m == (n * CELL_LOCATIONS_SIZE) \div (ProgramSide * ProgramSide * ProgramSide)
    IN  IF m < 1 THEN 1 ELSE m

\* GameRule::default() with its noise count and radius scaled.
GameRule_scaled ==
    [GameRule_default EXCEPT
        !.spawn_noise_count = scaled_count(GameRule_default.spawn_noise_count),
        !.spawn_noise_radius = scaled_radius(GameRule_default.spawn_noise_radius)]

\* fn setup: the startup system; create_random_spawn_points(1000, (0, 0, 0), 20)
\* and the seeding loop.  The entities it spawns belong to the renderer.
setup ==
    /\ pc = "startup"
    /\ \E s \in seeded(cell_locations, scaled_count(1000), <<0, 0, 0>>, scaled_radius(20)) :
          /\ cell_locations' = s.cells
          /\ pc' = IF s.panic THEN "panic" ELSE "idle"
          /\ probe' = [fn |-> "setup", points |-> s.points]
    /\ pre' = snapshot
    /\ last' = "setup"
    /\ UNCHANGED <<game_rule, paused, locals, app>>

\* The most calls of ui, pause and feed_cells one behaviour explores.
MaxEvents == 1

\* The body of feed_cells' filter_map: the positions of the alive cells, in the
\* order of their indices.  The colours belong to the renderer.
alive_positions(cells) ==
    LET is_alive(i) == cells[i]
        alive == SelectSeq([k \in 1 .. CELL_LOCATIONS_SIZE |-> k - 1], is_alive)
    IN  [k \in DOMAIN alive |-> translate_index_to_location(alive[k])]

\* fn feed_cells: *instances = InstanceMaterialData(x).
feed_cells ==
    /\ can_run(access_feed_cells)
    /\ events < MaxEvents
    /\ instances' = alive_positions(cell_locations)
    /\ probe' = [fn |-> "feed_cells"]
    /\ pre' = snapshot
    /\ last' = "feed_cells"
    /\ events' = events + 1
    /\ UNCHANGED <<resources, pc, locals, flips>>

\* The scan code pause compares with.
PauseKey == 28

\* A key test that ignores the state of the button.
is_pause_press_any_state(ev) == ev.scan_code = PauseKey

\* ButtonState::Pressed == ev.state && ev.scan_code == 28
is_pause_press(ev) == ev.state = "Pressed" /\ ev.scan_code = PauseKey

\* for ev in key_evr.iter() { if ... { *paused = !(*paused); } }
RECURSIVE pause_loop(_, _)
pause_loop(p, evs) ==
    IF evs = <<>>
    THEN p
    ELSE pause_loop(IF is_pause_press(Head(evs)) THEN ~p ELSE p, Tail(evs))

\* How many events of evs the loop of pause flips the flag for.
pause_presses(evs) == Cardinality({k \in DOMAIN evs : is_pause_press(evs[k])})

\* fn pause, on the keyboard events evs its reader has not seen yet.
pause(evs) ==
    /\ can_run(access_pause)
    /\ events < MaxEvents
    /\ paused' = pause_loop(paused, evs)
    /\ flips' = flips + pause_presses(evs)
    /\ probe' = [fn |-> "pause", arg |-> evs]
    /\ pre' = snapshot
    /\ last' = "pause"
    /\ events' = events + 1
    /\ UNCHANGED <<cell_locations, game_rule, pc, locals, instances>>

\* The keyboard events explored: pressed or released, the pause key or another
\* one; the event lists explored: none, each event alone, and the pause key
\* pressed and released, or pressed twice (a key repeat), within one frame.
KeyEvents == [state : {"Pressed", "Released"}, scan_code : {PauseKey, PauseKey + 1}]
KeyPressed == [state |-> "Pressed", scan_code |-> PauseKey]
KeyReleased == [state |-> "Released", scan_code |-> PauseKey]
KeyInputs ==
    {<<>>} \cup {<<ev>> : ev \in KeyEvents}
        \cup {<<KeyPressed, KeyReleased>>, <<KeyPressed, KeyPressed>>}

\* What the user does to the window in one frame: the widgets clicked, and for
\* each slider the value it was dragged to ({} when it was left alone).
NoInput ==
    [paused_clicked |-> FALSE, reset |-> FALSE, noise |-> FALSE,
     count |-> {}, radius |-> {}, survive |-> {}, spawn |-> {}]

\* egui::Slider::new(&mut v, 1.0..=1000000.0) and (&mut v, 1.0..=100.0): the values
\* the sliders can be dragged to, scaled.
CountSlider == 1 .. scaled_count(1000000)
RadiusSlider == 1 .. scaled_radius(100)

\* let mut v = field as f32; ui.add(Slider); field = v as i32
slider(field, moved) == IF moved = {} THEN field ELSE CHOOSE v \in moved : TRUE

\* The rule table after ui.checkbox(&mut i, ...) for every index, the boxes in
\* `clicked` having been clicked.
checkboxes(table, clicked) ==
    [i \in DOMAIN table |-> IF i \in clicked THEN ~table[i] ELSE table[i]]

\* fn ui, the closure of the window: the Paused checkbox, the reset button, the
\* spawn noise button (with the count and radius of before this frame's slider
\* moves), the two sliders, the survive and the spawn checkboxes.  A panic in the
\* noise loop ends the closure there.
ui(inp) ==
    /\ can_run(access_ui)
    /\ events < MaxEvents
    /\ inp.count \subseteq CountSlider
    /\ inp.radius \subseteq RadiusSlider
    /\ \E s \in IF inp.noise
                THEN seeded(IF inp.reset THEN EmptyGrid ELSE cell_locations,
                            game_rule.spawn_noise_count, <<0, 0, 0>>,
                            game_rule.spawn_noise_radius)
                ELSE {[panic |-> FALSE, points |-> <<>>,
                       cells |-> IF inp.reset THEN EmptyGrid ELSE cell_locations]} :
          /\ cell_locations' = s.cells
          /\ pc' = IF s.panic THEN "panic" ELSE pc
          /\ game_rule' =
                IF s.panic
                THEN game_rule
                ELSE [neighbors_to_surive |-> checkboxes(game_rule.neighbors_to_surive, inp.survive),
                      neighbors_to_spawn |-> checkboxes(game_rule.neighbors_to_spawn, inp.spawn),
                      spawn_noise_count |-> slider(game_rule.spawn_noise_count, inp.count),
                      spawn_noise_radius |-> slider(game_rule.spawn_noise_radius, inp.radius)]
          /\ probe' = [fn |-> "ui", arg |-> inp, points |-> s.points]
    /\ paused' = IF inp.paused_clicked THEN ~paused ELSE paused
    /\ flips' = IF inp.paused_clicked THEN flips + 1 ELSE flips
    /\ pre' = snapshot
    /\ last' = "ui"
    /\ events' = events + 1
    /\ UNCHANGED <<locals, instances>>

\* ------------------------------------------------------------ Spec: the program
\* The state main leaves: the resources it inserts, before the startup system.
InitProgram ==
    /\ cell_locations = EmptyGrid
    /\ game_rule = GameRule_scaled
    /\ paused = TRUE
    /\ pc = "startup"
    /\ chunk_len = 0
    /\ sched = [eval |-> vec_order, apply |-> vec_order]
    /\ cell_changes = <<>>
    /\ step_no = 0
    /\ last = "none"
    /\ pre = snapshot
    /\ probe = NoProbe
    /\ instances = <<>>
    /\ events = 0
    /\ flips = 0

\* The inputs of ui explored: nothing, one widget clicked, or the two sliders
\* dragged to small values.
SmallCounts == {1}
SmallRadii == {1, 2}
ClickedCounts == {9}
UiInputs ==
    {NoInput, [NoInput EXCEPT !.paused_clicked = TRUE], [NoInput EXCEPT !.reset = TRUE],
     [NoInput EXCEPT !.noise = TRUE]}
        \cup {[NoInput EXCEPT !.count = {c}, !.radius = {r}] : c \in SmallCounts, r \in SmallRadii}
        \cup {[NoInput EXCEPT !.survive = {c}] : c \in ClickedCounts}
        \cup {[NoInput EXCEPT !.spawn = {c}] : c \in ClickedCounts}

\* The spawn noise button is explored when the sliders hold small values.
NoiseExplored(inp) ==
    inp.noise => /\ game_rule.spawn_noise_count \in SmallCounts
                 /\ game_rule.spawn_noise_radius \in SmallRadii

\* The step between the calls of the other systems: the timestep of 0.125 s lets
\* several frames pass between two steps.
Tick ==
    \/ last # "step" /\ UpdaterPaused
    \/ last # "step" /\ UpdaterFork(chunck_size, vec_order, vec_order)
    \/ EvalChunk
    \/ Join
    \/ ApplyChunk
    \/ UpdaterReturn

Next ==
    \/ setup
    \/ Tick
    \/ \E inp \in UiInputs : NoiseExplored(inp) /\ ui(inp)
    \/ \E evs \in KeyInputs : pause(evs)
    \/ feed_cells

Spec == InitProgram /\ [][Next]_vars

\* ------------------------------------------------------------ SpecFrame: a running simulation
\* States of the running program: the pause flag was toggled once, the sliders
\* are at their minimum, the grid holds a block of alive cells and feed_cells
\* has rendered it.
FrameGrids == {BoxGrid(<<-1, -1, -1>>, <<1, 1, 1>>), HollowGrid}

InitFrame ==
    /\ cell_locations \in FrameGrids
    /\ game_rule = [GameRule_scaled EXCEPT !.spawn_noise_count = 1, !.spawn_noise_radius = 1]
    /\ paused = FALSE
    /\ pc = "idle"
    /\ chunk_len = 0
    /\ sched = [eval |-> vec_order, apply |-> vec_order]
    /\ cell_changes = <<>>
    /\ step_no = 0
    /\ last = "none"
    /\ pre = snapshot
    /\ probe = NoProbe
    /\ instances = alive_positions(cell_locations)
    /\ events = 0
    /\ flips = 1

\* The inputs of ui explored around a step: one widget clicked.
FrameUiInputs ==
    {[NoInput EXCEPT !.paused_clicked = TRUE], [NoInput EXCEPT !.reset = TRUE],
     [NoInput EXCEPT !.noise = TRUE]}
        \cup {[NoInput EXCEPT !.survive = {c}] : c \in ClickedCounts}
        \cup {[NoInput EXCEPT !.spawn = {c}] : c \in ClickedCounts}

NextFrame ==
    \/ Tick
    \/ \E inp \in FrameUiInputs : ui(inp)
    \/ pause(<<KeyPressed>>)
    \/ feed_cells

SpecFrame == InitFrame /\ [][NextFrame]_vars

\* ------------------------------------------------------------ SpecSeeding: the two seedings
\* The settings of the two sliders the spawn noise button is explored with: up to
\* MaxPoints points within MaxRadius, and one point for every radius of the slider.
SeedInputs ==
    ((1 .. MaxPoints) \X (1 .. MaxRadius)) \cup ({1} \X RadiusSlider)

\* The grids the spawn noise button is explored on.
SeedingGrids == {EmptyGrid, HollowGrid, FullGrid}

\* The startup state, and states of the paused program after the sliders were
\* dragged.
InitSeeding ==
    \/ InitProgram
    \/ /\ cell_locations \in SeedingGrids
       /\ \E setting \in SeedInputs :
             game_rule = [GameRule_scaled EXCEPT !.spawn_noise_count = setting[1],
                                                 !.spawn_noise_radius = setting[2]]
       /\ paused = TRUE
       /\ InitLocals

\* Each behaviour seeds once: at startup, or by the spawn noise button.
NextSeeding ==
    \/ setup
    \/ last = "none" /\ ui([NoInput EXCEPT !.noise = TRUE])

SpecSeeding == InitSeeding /\ [][NextSeeding]_vars

\* ------------------------------------------------------------ properties
\* An unpaused call of the step has returned, and no other system ran since.
StepDone == pc = "idle" /\ last = "step" /\ ~pre.paused

\* The rule tables are those of GameRule::default().
IsDefaultRule(rule) ==
    /\ rule.neighbors_to_surive = GameRule_default.neighbors_to_surive
    /\ rule.neighbors_to_spawn = GameRule_default.neighbors_to_spawn

\* The count of get_neighbors for cell i on the grid of the call.
PreCount(i) == get_neighbors(i, pre.cell_locations).n

\* What the rule makes of cell i of the grid of the call: a function of that grid
\* and of the rule, in which no chunk and no order occurs.
NextCell(i) ==
    LET n == PreCount(i)
    IN  /\ pre.game_rule.neighbors_to_surive[n]
        /\ (pre.game_rule.neighbors_to_spawn[n] \/ pre.cell_locations[i])

\* C1: the grid after an unpaused step is a function of the pre-tick grid and the
\* rule only: whatever the chunk size, the order in which the tasks run and the
\* order in which the per-chunk results are applied, every cell ends as NextCell
\* says.
C1_OrderIndependent ==
    StepDone => \A i \in Indices : cell_locations[i] = NextCell(i)

\* C1 witness: a step with another chunk size than the program's, tasks run and
\* results applied backwards, that changed the grid.
C1_Witness ==
    /\ StepDone
    /\ chunk_len = chunck_size + 1
    /\ sched.eval # vec_order
    /\ sched.apply # vec_order
    /\ cell_locations # pre.cell_locations

\* C2: with the default rule, a cell alive before an unpaused step is alive after
\* it exactly when its neighbour count on the pre-tick grid is in {5,6,7,8}.
C2_AliveSurvives ==
    (StepDone /\ IsDefaultRule(pre.game_rule)) =>
        \A i \in Indices :
            pre.cell_locations[i] => (cell_locations[i] <=> PreCount(i) \in {5, 6, 7, 8})

\* C2 witness: a default-rule step after which one alive cell is still alive and
\* another one is dead.
C2_Witness ==
    /\ StepDone
    /\ IsDefaultRule(pre.game_rule)
    /\ \E i \in Indices : pre.cell_locations[i] /\ cell_locations[i]
    /\ \E i \in Indices : pre.cell_locations[i] /\ ~cell_locations[i]

\* C3: with the default rule, a cell dead before an unpaused step is alive after
\* it exactly when its neighbour count on the pre-tick grid is in {6,7,9}.
C3_DeadSpawns ==
    (StepDone /\ IsDefaultRule(pre.game_rule)) =>
        \A i \in Indices :
            ~pre.cell_locations[i] => (cell_locations[i] <=> PreCount(i) \in {6, 7, 9})

\* C5: a call of the step while the pause flag is set leaves the grid, the rule
\* and the pause flag as they were.
C5_PausedNoChange ==
    (last = "step" /\ pre.paused) => snapshot = pre

\* C5 witness: a paused call has returned on a grid with alive cells.
C5_Witness ==
    /\ last = "step"
    /\ pre.paused
    /\ pc = "idle"
    /\ \E i \in Indices : cell_locations[i]

\* C8: with the default rule, a grid with exactly one alive cell is all dead after
\* one unpaused step.
C8_SingleCellDies ==
    (/\ StepDone
     /\ IsDefaultRule(pre.game_rule)
     /\ Cardinality({i \in Indices : pre.cell_locations[i]}) = 1)
        => \A i \in Indices : ~cell_locations[i]

\* C8 witness: the step has returned on the grid whose one alive cell was the last
\* cell of the grid, a corner of the outermost shell.
C8_Witness ==
    /\ StepDone
    /\ IsDefaultRule(pre.game_rule)
    /\ pre.cell_locations = SingleGrid(CELL_LOCATIONS_SIZE - 1)

\* A fixed-point coordinate that is a lattice coordinate of the grid.
IsLattice(v) == v % Sub = 0 /\ (v \div Sub) \in Coords

\* C4: every index of the grid maps to a position with each coordinate in
\* [-side/2, side/2) that maps back to the index, and every lattice position of
\* the grid maps to an index of the grid that maps back to the position, so that
\* no two lattice positions share an index.
C4_RoundTrip ==
    /\ probe.fn = "translate_index_to_location" =>
          /\ \A a \in 1 .. 3 : probe.ret[a] \in Coords
          /\ translate_location_to_index(Fix(probe.ret[1]), Fix(probe.ret[2]), Fix(probe.ret[3]))
                = probe.arg
    /\ (probe.fn = "translate_location_to_index" /\ \A a \in 1 .. 3 : IsLattice(probe.arg[a])) =>
          /\ probe.ret \in Indices
          /\ translate_index_to_location(probe.ret)
                = <<probe.arg[1] \div Sub, probe.arg[2] \div Sub, probe.arg[3] \div Sub>>

\* C4 witness: the last index of the grid was mapped, to the corner position
\* (side/2 - 1, side/2 - 1, side/2 - 1).
C4_Witness ==
    /\ probe.fn = "translate_index_to_location"
    /\ probe.arg = CELL_LOCATIONS_SIZE - 1
    /\ \A a \in 1 .. 3 : probe.ret[a] = (GAME_SIZE \div 2) - 1

\* C6: get_neighbors returns a count in [0, 26] for every index and grid, without
\* an out-of-bounds read, so the pass of the step over that cell looks both tables
\* up inside 0..26.
C6_CountInRange ==
    probe.fn = "get_neighbors" =>
        /\ ~probe.ret.panic
        /\ probe.ret.n \in 0 .. 26
        /\ as_usize(probe.ret.n) \in DOMAIN game_rule.neighbors_to_surive
        /\ as_usize(probe.ret.n) \in DOMAIN game_rule.neighbors_to_spawn
        /\ ~chunk_body(probe.arg, cell_locations, game_rule).panic

\* C6 witness: a call that returned the largest count, 26.
C6_Witness == probe.fn = "get_neighbors" /\ probe.ret.n = 26

\* A position of the outermost shell of the grid.
InShell(loc) ==
    \E a \in 1 .. 3 : loc[a] = -(GAME_SIZE \div 2) \/ loc[a] = (GAME_SIZE \div 2) - 1

\* C7: on the all-alive grid get_neighbors returns 26 for the cell at (0,0,0) and
\* fewer than 26 for every cell of the outermost shell, every neighbour it counts
\* being a position of the grid.
C7_CentreAndShell ==
    (probe.fn = "get_neighbors" /\ cell_locations = FullGrid) =>
        LET loc == translate_index_to_location(probe.arg)
        IN  /\ loc = <<0, 0, 0>> => probe.ret.n = 26
            /\ InShell(loc) =>
                  /\ ~probe.ret.panic
                  /\ probe.ret.n < 26
                  /\ \A k \in DOMAIN locations :
                        ~skipped(loc, locations[k]) =>
                            \A a \in 1 .. 3 : (loc[a] + locations[k][a]) \in Coords

\* C7 witness: on the all-alive grid, a call for a cell of the outermost shell that
\* counted some neighbours.
C7_Witness ==
    /\ probe.fn = "get_neighbors"
    /\ cell_locations = FullGrid
    /\ InShell(translate_index_to_location(probe.arg))
    /\ probe.ret.n > 0

\* C9: with a radius of at least 1, create_random_spawn_points returns exactly
\* `points` positions, each coordinate in [s, s + radius) for
\* s = clamp(center - radius / 2, -side/2, side/2); around the origin, an even
\* radius 2h that fits the grid (20 in a grid of side 100) gives [-h, h).
C9_SeedBounds ==
    (probe.fn = "create_random_spawn_points" /\ probe.arg.distance >= 1) =>
        /\ ~probe.ret.panic
        /\ Len(probe.ret.points) = probe.arg.points
        /\ \A k \in DOMAIN probe.ret.points : \A a \in 1 .. 3 :
              LET s == clamp(probe.arg.center[a] - (probe.arg.distance \div 2),
                             -(GAME_SIZE \div 2), GAME_SIZE \div 2)
                  v == probe.ret.points[k][a]
              IN  /\ s <= v
                  /\ v < s + probe.arg.distance
                  /\ (/\ probe.arg.center = <<0, 0, 0>>
                      /\ probe.arg.distance % 2 = 0
                      /\ probe.arg.distance <= GAME_SIZE) =>
                         (-(probe.arg.distance \div 2) <= v /\ v < probe.arg.distance \div 2)

\* C9 witness: a call around the origin with an even radius that returned a point
\* on the lower corner of its cube.
C9_Witness ==
    /\ probe.fn = "create_random_spawn_points"
    /\ probe.arg.center = <<0, 0, 0>>
    /\ probe.arg.distance = 2
    /\ Len(probe.ret.points) = 1
    /\ probe.ret.points[1] = <<-1, -1, -1>>

\* C10: translate_location_to_index, called with a position that has a coordinate
\* outside [-side/2, side/2), fails or yields an index whose grid access fails: it
\* never yields the index of a cell of the grid.
C10_OutOfRangeFails ==
    (/\ probe.fn = "translate_location_to_index"
     /\ \E a \in 1 .. 3 : floor_to_cell(probe.arg[a]) \notin Coords)
        => probe.ret \notin Indices

\* The chunk the task pool ran last in the fork phase.
LastEvaluated == order_at(sched.eval, step_no - 1, chunk_count(chunk_len))

\* The result of the closure for chunk c on the resources of the call.
PreResult(c) == chunk_map(c, chunk_len, pre.cell_locations, pre.game_rule)

\* C12: within one unpaused step no write to the grid happens before every chunk
\* has finished its counting: during the fork phase the grid is the pre-tick grid,
\* each task's result is the one computed from the pre-tick grid, and the apply
\* phase starts with every result present and computed from the pre-tick grid.
C12_ReadsBeforeWrites ==
    /\ pc = "fork" => cell_locations = pre.cell_locations
    /\ (pc = "fork" /\ step_no > 0) => cell_changes[LastEvaluated] = PreResult(LastEvaluated)
    /\ pc = "apply" => \A c \in DOMAIN cell_changes : cell_changes[c].done
    /\ (pc = "apply" /\ step_no = 0) =>
          \A c \in DOMAIN cell_changes : cell_changes[c] = PreResult(c)

\* C12 witness: the apply phase has written to the grid, after every chunk's task
\* had returned a non-empty result.
C12_Witness ==
    /\ pc = "apply"
    /\ step_no > 0
    /\ cell_locations # pre.cell_locations
    /\ \A c \in DOMAIN cell_changes : cell_changes[c].done
    /\ \E c \in DOMAIN cell_changes : cell_changes[c].cells_to_add # <<>>

\* The elements of a vector of indices.
Listed(list) == {list[k] : k \in DOMAIN list}

\* C13: in an unpaused step, whatever the rule and the grid, no index is in both
\* the add-list and the remove-list of its chunk.
C13_ListsDisjoint ==
    \A c \in DOMAIN cell_changes :
        Listed(cell_changes[c].cells_to_add) \cap Listed(cell_changes[c].cells_to_remove) = {}

\* The neighbour of loc at offset x lies in the outermost shell of the grid or
\* beyond it: a coordinate of absolute value side/2 - 1 or more.
NearEdge(loc, x) == \E a \in 1 .. 3 : abs(loc[a] + x[a]) >= (GAME_SIZE \div 2) - 1

\* C14: for every cell position p and every offset o, get_neighbors skips the
\* neighbour exactly when |p.x+o.x|, |p.y+o.y| or |p.z+o.z| is at least
\* side/2 - 1 and otherwise adds 1 if the cell at p+o is alive: the count is the
\* number of alive neighbours with all coordinates of absolute value below
\* side/2 - 1.
C14_SkipByNeighbour ==
    probe.fn = "get_neighbors" =>
        LET loc == translate_index_to_location(probe.arg)
        IN  /\ \A k \in DOMAIN locations : skipped(loc, locations[k]) <=> NearEdge(loc, locations[k])
            /\ probe.ret.n =
                  Cardinality({k \in DOMAIN locations :
                                  /\ ~NearEdge(loc, locations[k])
                                  /\ cell_locations[neighbor_index(loc, locations[k])]})

\* C15: for every index of the grid and every offset get_neighbors does not skip,
\* the neighbour position has every coordinate in [-side/2, side/2), and the index
\* computed for it is an index of the grid that denotes exactly that position: no
\* read is out of bounds and none is of a wrapped-around cell.
C15_ReadsInGrid ==
    probe.fn = "get_neighbors" =>
        LET loc == translate_index_to_location(probe.arg)
        IN  /\ ~probe.ret.panic
            /\ \A k \in DOMAIN locations :
                  ~skipped(loc, locations[k]) =>
                      LET x == locations[k]
                          index == neighbor_index(loc, x)
                      IN  /\ \A a \in 1 .. 3 : (loc[a] + x[a]) \in Coords
                          /\ index \in Indices
                          /\ translate_index_to_location(index)
                                = <<loc[1] + x[1], loc[2] + x[2], loc[3] + x[3]>>

\* C15 witness: a call for a cell with negative coordinates that read the first
\* cell of the grid, the corner (-side/2, -side/2, -side/2) of the outermost shell.
C15_Witness ==
    /\ probe.fn = "get_neighbors"
    /\ LET loc == translate_index_to_location(probe.arg)
       IN  \E k \in DOMAIN locations :
              /\ ~skipped(loc, locations[k])
              /\ neighbor_index(loc, locations[k]) = 0

\* The chunks of the running step that hold index i.
ChunksOf(i) ==
    {c \in DOMAIN cell_changes : chunk_first(c, chunk_len) <= i /\ i <= chunk_last(c, chunk_len)}

\* The number of elements of chunk c of the running step.
ChunkLength(c) == chunk_last(c, chunk_len) - chunk_first(c, chunk_len) + 1

\* C16: an unpaused step partitions [0, side^3) into contiguous chunks of size
\* side^3/32, every index in exactly one chunk and every chunk evaluated once; the
\* chunks are equal and there are 32 of them when 32 divides side^3, as it does
\* for the program's side, 100.
C16_Partition ==
    /\ LET n == ProgramSide * ProgramSide * ProgramSide
           size == as_usize(n \div ChunkDivisor)
       IN  n % size = 0 /\ n \div size = ChunkDivisor
    /\ (pc = "fork" /\ step_no = 0) =>
          /\ chunk_len = CELL_LOCATIONS_SIZE \div ChunkDivisor
          /\ DOMAIN cell_changes = 0 .. (chunk_count(chunk_len) - 1)
          /\ \A i \in Indices : Cardinality(ChunksOf(i)) = 1
          /\ chunk_first(0, chunk_len) = 0
          /\ \A c \in DOMAIN cell_changes :
                /\ ChunkLength(c) >= 1
                /\ IF c + 1 \in DOMAIN cell_changes
                   THEN chunk_first(c + 1, chunk_len) = chunk_last(c, chunk_len) + 1
                   ELSE chunk_last(c, chunk_len) = CELL_LOCATIONS_SIZE - 1
          /\ CELL_LOCATIONS_SIZE % chunk_len = 0 =>
                \A c \in DOMAIN cell_changes : ChunkLength(c) = chunk_len
          /\ CELL_LOCATIONS_SIZE = ChunkDivisor * chunk_len =>
                Cardinality(DOMAIN cell_changes) = ChunkDivisor
    /\ pc = "fork" =>
          Cardinality({c \in DOMAIN cell_changes : cell_changes[c].done}) = step_no
    /\ (pc = "apply" /\ step_no = 0) =>
          \A c \in DOMAIN cell_changes :
              \A i \in Listed(cell_changes[c].cells_to_add) \cup Listed(cell_changes[c].cells_to_remove) :
                  ChunksOf(i) = {c}

\* C16 witness: the tasks of a step have returned and every index of the grid is
\* in the remove-list of exactly one chunk, the one it belongs to.
C16_Witness ==
    /\ pc = "apply"
    /\ step_no = 0
    /\ \A i \in Indices :
          {c \in DOMAIN cell_changes : i \in Listed(cell_changes[c].cells_to_remove)} = ChunksOf(i)

\* C17: for any rule and any pre-tick grid, after an unpaused step cell i is alive
\* if and only if survive[n] holds and (spawn[n] holds or the cell was alive before
\* the step), n being get_neighbors(i) on the pre-tick grid; when n is in the spawn
\* table and not in the survive table the removal overrides the addition and the
\* cell ends dead.
C17_RuleOutcome ==
    StepDone =>
        \A i \in Indices :
            LET n == PreCount(i)
                survive == pre.game_rule.neighbors_to_surive[n]
                spawn == pre.game_rule.neighbors_to_spawn[n]
            IN  /\ cell_locations[i] <=> (survive /\ (spawn \/ pre.cell_locations[i]))
                /\ (spawn /\ ~survive) => ~cell_locations[i]

\* C17 witness: a step has returned after which a dead cell whose count is in the
\* spawn table and not in the survive table is dead, and another dead cell, whose
\* count is in both tables, is alive.
C17_Witness ==
    /\ StepDone
    /\ \E i \in Indices :
          /\ ~pre.cell_locations[i]
          /\ pre.game_rule.neighbors_to_spawn[PreCount(i)]
          /\ ~pre.game_rule.neighbors_to_surive[PreCount(i)]
          /\ ~cell_locations[i]
    /\ \E i \in Indices :
          /\ ~pre.cell_locations[i]
          /\ pre.game_rule.neighbors_to_spawn[PreCount(i)]
          /\ pre.game_rule.neighbors_to_surive[PreCount(i)]
          /\ cell_locations[i]

\* The events of a list that are presses of the key with scan code 28.
PressesOf(evs) ==
    {k \in DOMAIN evs : evs[k].state = "Pressed" /\ evs[k].scan_code = PauseKey}

\* C18: the simulation starts paused.  Until the pause flag is first toggled (by
\* the key with scan code 28 or by the checkbox) the flag is set, no step gets
\* past its pause test, a returned step has changed nothing, and the grid changes
\* only by the startup seeding, by reset and by spawn noise.  A call of pause
\* flips the flag once for each pressed-key event of scan code 28 and for no
\* other event.
C18_StartsPaused ==
    /\ flips = 0 => paused
    /\ flips = 0 => pc \in {"startup", "idle"}
    /\ (flips = 0 /\ last = "step") => snapshot = pre
    /\ (flips = 0 /\ cell_locations # pre.cell_locations) =>
          \/ last = "setup"
          \/ last = "ui" /\ (probe.arg.reset \/ probe.arg.noise)
    /\ last = "pause" =>
          /\ paused = IF Cardinality(PressesOf(probe.arg)) % 2 = 1 THEN ~pre.paused ELSE pre.paused
          /\ <<cell_locations, game_rule>> = <<pre.cell_locations, pre.game_rule>>

\* C18 witness: before any toggle of the flag, after keyboard events that were
\* not presses of the pause key, a step was called and has returned, and the grid
\* holds the startup seeding.
C18_Witness ==
    /\ flips = 0
    /\ last = "step"
    /\ pc = "idle"
    /\ probe.fn = "pause"
    /\ Len(probe.arg) > 0
    /\ \E i \in Indices : cell_locations[i]

\* C11: a tick is atomic with respect to the other systems.  While the step is
\* between its fork and its return no other system has run since the step was
\* called, so the rule tables and the pause flag are those of the call and each
\* chunk has been evaluated against them; feed_cells, ui and pause run only
\* between steps, and what feed_cells hands to the renderer is the grid as a
\* whole step left it.
C11_TickAtomic ==
    /\ step_running =>
          /\ last = "step"
          /\ game_rule = pre.game_rule
          /\ paused = pre.paused
    /\ (pc = "fork" /\ step_no > 0) =>
          cell_changes[LastEvaluated] =
              chunk_map(LastEvaluated, chunk_len, pre.cell_locations, game_rule)
    /\ last \in {"ui", "pause", "feed_cells"} => ~step_running
    /\ last = "feed_cells" =>
          /\ pc = "idle"
          /\ instances = alive_positions(pre.cell_locations)
          /\ cell_locations = pre.cell_locations

\* C11 witness: after a call of another system a step is in the middle of its
\* apply phase: the grid is neither the pre-tick grid nor the grid the step will
\* leave.
C11_Witness ==
    /\ pc = "apply"
    /\ events > 0
    /\ last = "step"
    /\ cell_locations # pre.cell_locations
    /\ \E i \in Indices : cell_locations[i] # NextCell(i)

\* A seeding has just run: setup, or ui with the spawn noise button clicked.
Seeded == last = "setup" \/ (last = "ui" /\ probe.arg.noise)

\* C19: every seeding the program performs (startup; spawn noise with any radius
\* of the slider) draws the requested number of points, each with every
\* coordinate in [-side/2, side/2); the index computed for a point is an index of
\* the grid and denotes the point's position; afterwards exactly the cells of the
\* points and the cells alive before are alive, and nothing panicked.
C19_SeedingInGrid ==
    Seeded =>
        LET index(k) == translate_location_to_index(Fix(probe.points[k][1]),
                                                    Fix(probe.points[k][2]),
                                                    Fix(probe.points[k][3]))
            marked == {index(k) : k \in DOMAIN probe.points}
        IN  /\ pc = "idle"
            /\ Len(probe.points) >= 1
            /\ last = "ui" => Len(probe.points) = pre.game_rule.spawn_noise_count
            /\ \A k \in DOMAIN probe.points :
                  /\ \A a \in 1 .. 3 : probe.points[k][a] \in Coords
                  /\ index(k) \in Indices
                  /\ translate_index_to_location(index(k)) = probe.points[k]
            /\ \A i \in Indices : cell_locations[i] <=> (pre.cell_locations[i] \/ i \in marked)

\* C19 witness: the spawn noise button, with the radius slider at its maximum,
\* has marked the first cell of the grid, the corner (-side/2, -side/2, -side/2),
\* on a grid that held other alive cells.
C19_Witness ==
    /\ last = "ui"
    /\ probe.arg.noise
    /\ pre.game_rule.spawn_noise_radius = GAME_SIZE
    /\ probe.points[1] = <<-(GAME_SIZE \div 2), -(GAME_SIZE \div 2), -(GAME_SIZE \div 2)>>
    /\ ~pre.cell_locations[0]
    /\ cell_locations[0]
    /\ \E i \in Indices : i # 0 /\ pre.cell_locations[i] /\ cell_locations[i]

====
